---------------------------- MODULE Spec2Model ----------------------------
(***************************************************************************)
(* The Brain orchestrator of becca (core/brain.py): the sense_act_learn    *)
(* cycle, the periodic checkpoint, backup and restore.                     *)
(*                                                                         *)
(* The five collaborators (amygdala, cerebellum, cingulate, ganglia,       *)
(* hippocampus) are not part of the sources: a call to one of them is a    *)
(* step that records the arguments it was handed and returns a value drawn *)
(* from a small set.  The two pickle files are modelled by what a reader   *)
(* finds in them.  Exceptions follow the Python 2 library: open() and      *)
(* write() fail with IOError, pickle.dump with PicklingError, pickle.load  *)
(* with UnpicklingError or, as the library documents, with other           *)
(* exceptions such as EOFError on a stream that ends early.                *)
(***************************************************************************)
EXTENDS Integers, Sequences, FiniteSets, TLC

(***************************************************************************)
(* Bounds of the model.                                                    *)
(***************************************************************************)
\* sense_act_learn is not called on a brain whose timestep reached this.
MaxTimestep == 4
\* Stand-in for backup_interval (1e4 in the constructor).
BackupInterval == 2
\* Stand-in for satisfaction_time_constant (1e3 in Affect.__init__).
TimeConstant == 3
\* In the life of one Affect instance no cycle starts on a brain whose
\* timestep reached this.
MaxAffectCycles == 3

\* Geometries a world can ask for: <<num_sensors, requested num_actions>>.
Geometries == {<<1, 0>>, <<2, 0>>, <<1, 1>>}
\* Values of one element of a sensor, action or prediction vector.
Levels == {0, 1}
\* Rewards handed in by the world; 3 is outside the expected [-1, 1].
Rewards == {0, 3}
\* Rewards handed to Affect.update, as fractions <<numerator, denominator>>:
\* -3 and 5 are far outside [-1, 1].
AffectRewards == {<<-3, 1>>, <<1, 2>>, <<5, 1>>}

Vec(n, v) == [i \in 1..n |-> v]
\* np.zeros(n)
Zeros(n) == Vec(n, 0)
\* The vectors of length n used as inputs and collaborator outputs.
Vectors(n) == {Vec(n, v) : v \in Levels}

None == <<>>

VARIABLES
    brain,      \* the Brain instance the caller holds
    files,      \* the primary pickle file and its .bak copy
    pc,         \* where the running operation stands
    frame,      \* arguments and locals of the running operation
    fresh,      \* history: the caller holds the instance it constructed
    calls,      \* history: sense_act_learn calls made on a fresh instance
    ckptAt,     \* history: timesteps at which the cycle called backup
    stored,     \* history: what the last predict call returned
    lastGood,   \* history: the Brain as it was at the last backup that completed
    affect,     \* the Affect instance behind self.amygdala
    hist        \* history of the calls made on affect

vars == <<brain, files, pc, frame, fresh, calls, ckptAt, stored, lastGood,
          affect, hist>>

(***************************************************************************)
(* Brain.__init__                                                          *)
(***************************************************************************)
\* The do-nothing action is not added to the requested actions.
BrainInitAsRequested(num_sensors, num_actions) ==
    [num_sensors        |-> num_sensors,
     num_actions        |-> num_actions,
     backup_interval    |-> BackupInterval,
     predicted_actions  |-> Zeros(num_actions),
     predicted_features |-> Zeros(num_sensors),
     timestep           |-> 0]

BrainInit(num_sensors, num_actions) ==
    [num_sensors        |-> num_sensors,
     num_actions        |-> num_actions + 1,
     backup_interval    |-> BackupInterval,
     predicted_actions  |-> Zeros(num_actions + 1),
     predicted_features |-> Zeros(num_sensors),
     timestep           |-> 0]

(***************************************************************************)
(* Files.  status is what a reader finds:                                  *)
(*   absent      no such file (open raises IOError)                        *)
(*   unreadable  the file cannot be opened (open raises IOError)           *)
(*   torn        a pickle cut short: truncated by open(.., 'wb') and not,  *)
(*               or not fully, written                                     *)
(*   garbage     bytes that are no pickle                                  *)
(*   notbrain    a complete pickle of something that is not a Brain        *)
(*   complete    a complete pickle of the Brain in content[1]              *)
(***************************************************************************)
File(status, content) == [status |-> status, content |-> content]
Absent == File("absent", None)
Torn == File("torn", None)
Complete(b) == File("complete", <<b>>)

Call(name, args) == [name |-> name, args |-> args]

\* The running operation has not run a backup.
NoBackup == [at |-> "none", exc |-> "none", outcome |-> "skipped",
             success |-> FALSE]

\* Arguments and locals of a call of operation op made on instance b.
\* trace, lastCall, backup and entry are history: the statements executed,
\* the last collaborator call with its arguments, the backup that was run
\* and the instance as it was when the call was made.
NewFrame(op, b) ==
    [op              |-> op,
     sensors         |-> None,
     reward          |-> None,
     features        |-> None,
     attended        |-> None,
     decision_scores |-> None,
     actions         |-> None,
     decision_index  |-> None,
     performance     |-> None,
     trace           |-> <<>>,
     lastCall        |-> Call("none", None),
     backup          |-> NoBackup,
     entry           |-> <<b>>,
     exc             |-> "none",
     result          |-> None]

NoFrame ==
    [op              |-> "none",
     sensors         |-> None,
     reward          |-> None,
     features        |-> None,
     attended        |-> None,
     decision_scores |-> None,
     actions         |-> None,
     decision_index  |-> None,
     performance     |-> None,
     trace           |-> <<>>,
     lastCall        |-> Call("none", None),
     backup          |-> NoBackup,
     entry           |-> None,
     exc             |-> "none",
     result          |-> None]

(***************************************************************************)
(* Arithmetic of Affect.  A float is modelled by the rational number it    *)
(* stands for, a pair <<n, d>> in lowest terms with d > 0, and the         *)
(* operations are exact.                                                   *)
(***************************************************************************)
Abs(x) == IF x < 0 THEN -x ELSE x

RECURSIVE GCD(_, _)
GCD(a, b) == IF b = 0 THEN a ELSE GCD(b, a % b)

Rat(n, d) == LET g == GCD(Abs(n), d) IN <<n \div g, d \div g>>
Zero == <<0, 1>>
One == <<1, 1>>
RatNeg(x) == <<-x[1], x[2]>>
RatAdd(x, y) == Rat(x[1] * y[2] + y[1] * x[2], x[2] * y[2])
RatSub(x, y) == RatAdd(x, RatNeg(y))
RatMul(x, y) == Rat(x[1] * y[1], x[2] * y[2])
\* x / k for an integer k > 0
RatDivInt(x, k) == Rat(x[1], x[2] * k)
RatLeq(x, y) == x[1] * y[2] <= y[1] * x[2]
\* np.minimum, np.maximum
RatMin(x, y) == IF RatLeq(x, y) THEN x ELSE y
RatMax(x, y) == IF RatLeq(x, y) THEN y ELSE x

RECURSIVE RatSum(_)
RatSum(seq) == IF seq = <<>> THEN Zero
               ELSE RatAdd(Head(seq), RatSum(Tail(seq)))

\* np.mean(seq); of an empty list numpy returns nan.
Mean(seq) == IF seq = <<>> THEN "nan" ELSE RatDivInt(RatSum(seq), Len(seq))

(***************************************************************************)
(* Affect (becca/core/affect.py)                                           *)
(***************************************************************************)
\* Affect.__init__
AffectInit ==
    [satisfaction_time_constant |-> TimeConstant,
     satisfaction               |-> Zero,
     cumulative_reward          |-> Zero,
     time_since_reward_log      |-> 0,
     reward_history             |-> <<>>,
     reward_steps               |-> <<>>]

\* The reward is mixed in as it was handed in.
ClipNothing(reward) == reward

\* reward = np.maximum(np.minimum(reward, 1.), -1.)
Clip(reward) == RatMax(RatMin(reward, One), RatNeg(One))

\* The reward is added to the satisfaction, which never decays.
MixAccumulates(satisfaction, reward, rate) == RatAdd(satisfaction, reward)

\* self.satisfaction * (1. - rate) + reward * rate
Mix(satisfaction, reward, rate) ==
    RatAdd(RatMul(satisfaction, RatSub(One, rate)), RatMul(reward, rate))

\* Affect.update(reward): the instance after the call and the value returned.
AffectUpdate(a, reward) ==
    LET clipped == Clip(reward)
        rate == Rat(1, a.satisfaction_time_constant)
        satisfaction == Mix(a.satisfaction, clipped, rate)
    IN  [affect |-> [a EXCEPT !.satisfaction = satisfaction,
                              !.cumulative_reward = RatAdd(@, clipped),
                              !.time_since_reward_log = @ + 1],
         result |-> satisfaction]

\* Every call of visualize logs.
FlushDueAlways(a) == a.time_since_reward_log >= 0

\* if self.time_since_reward_log > 0:
FlushDue(a) == a.time_since_reward_log > 0

\* The mean of the rewards since the last log.
LoggedMean(a) == RatDivInt(a.cumulative_reward, a.time_since_reward_log)

\* float(self.cumulative_reward) / (self.time_since_reward_log + 1)
Logged(a) == RatDivInt(a.cumulative_reward, a.time_since_reward_log + 1)

\* The time step is logged without the reward.
FlushStepOnly(a, timestep) ==
    [a EXCEPT !.cumulative_reward = Zero,
              !.time_since_reward_log = 0,
              !.reward_steps = Append(@, timestep)]

\* The body of the if statement of visualize.
Flush(a, timestep) ==
    [a EXCEPT !.reward_history = Append(@, Logged(a)),
              !.cumulative_reward = Zero,
              !.time_since_reward_log = 0,
              !.reward_steps = Append(@, timestep)]

\* Affect.visualize(timestep, brain_name, log_dir): the instance after the
\* call and the value returned.  The plot it saves is not modelled.
AffectVisualize(a, timestep) ==
    LET after == IF FlushDue(a) THEN Flush(a, timestep) ELSE a
    IN  [affect |-> after, result |-> Mean(after.reward_history)]

\* History of the calls made on affect: the clipped rewards of all updates,
\* those of the updates since the last log, the number of updates, and the
\* instance as it was when visualize was last called (as constructed before
\* the first call).
HistInit ==
    [seen      |-> {},
     unflushed |-> <<>>,
     updates   |-> 0,
     before    |-> AffectInit]

HistAfterUpdate(h, reward) ==
    [h EXCEPT !.seen = @ \cup {Clip(reward)},
              !.unflushed = Append(@, Clip(reward)),
              !.updates = @ + 1]

HistAfterVisualize(h, a) ==
    [h EXCEPT !.unflushed = <<>>, !.before = a]

Init ==
    /\ \E g \in Geometries : brain = BrainInit(g[1], g[2])
    /\ files = [primary |-> Absent, bak |-> Absent]
    /\ pc = "idle"
    /\ frame = NoFrame
    /\ fresh = TRUE
    /\ calls = 0
    /\ ckptAt = {}
    /\ stored = [predicted_features |-> brain.predicted_features,
                 predicted_actions  |-> brain.predicted_actions]
    /\ lastGood = None
    /\ affect = AffectInit
    /\ hist = HistInit


(***************************************************************************)
(* Brain.backup                                                            *)
(***************************************************************************)
\* The pickle does not keep the age of the Brain.
SnapshotWithoutTimestep(b) ==
    [num_sensors        |-> b.num_sensors,
     num_actions        |-> b.num_actions,
     backup_interval    |-> b.backup_interval,
     predicted_actions  |-> b.predicted_actions,
     predicted_features |-> b.predicted_features,
     timestep           |-> 0]

\* What pickle.dump(self, ...) writes: every attribute of the Brain.
Snapshot(b) ==
    [num_sensors        |-> b.num_sensors,
     num_actions        |-> b.num_actions,
     backup_interval    |-> b.backup_interval,
     predicted_actions  |-> b.predicted_actions,
     predicted_features |-> b.predicted_features,
     timestep           |-> b.timestep]

\* A fault stops backup at one of its four statements, in program order.
\* open and the writes of a dump fail with IOError, a dump that finds an
\* object it cannot pickle with PicklingError.  exc "kill" is the process
\* being killed there: no exception, no return.
NoFault == [at |-> "none", exc |-> "none"]
Faults ==
    {NoFault}
    \cup {[at |-> s, exc |-> e] : s \in {"open_primary", "open_bak"},
                                   e \in {"IOError", "kill"}}
    \* the same object was pickled a moment before when the .bak is written,
    \* so only the first dump can find it unpicklable
    \cup {[at |-> "dump_primary", exc |-> e] :
              e \in {"IOError", "PicklingError", "kill"}}
    \cup {[at |-> "dump_bak", exc |-> e] : e \in {"IOError", "kill"}}

\* The two copies are written independently: the .bak is written although
\* the primary could not be.
FilesAfterIndependent(b, fs, stop) ==
    CASE stop = "open_primary" -> [fs EXCEPT !.bak = Complete(Snapshot(b))]
      [] stop = "dump_primary" -> [primary |-> Torn,
                                   bak     |-> Complete(Snapshot(b))]
      [] stop = "open_bak"     -> [fs EXCEPT !.primary = Complete(Snapshot(b))]
      [] stop = "dump_bak"     -> [primary |-> Complete(Snapshot(b)),
                                   bak     |-> Torn]
      [] OTHER                 -> [primary |-> Complete(Snapshot(b)),
                                   bak     |-> Complete(Snapshot(b))]

\* The files after backup ran up to, and stopped in, statement `stop`.
\* open(.., 'wb') truncates, so a dump that stops leaves a torn file.
FilesAfter(b, fs, stop) ==
    CASE stop = "open_primary" -> fs
      [] stop = "dump_primary" -> [fs EXCEPT !.primary = Torn]
      [] stop = "open_bak"     -> [fs EXCEPT !.primary = Complete(Snapshot(b))]
      [] stop = "dump_bak"     -> [primary |-> Complete(Snapshot(b)),
                                   bak     |-> Torn]
      [] OTHER                 -> [primary |-> Complete(Snapshot(b)),
                                   bak     |-> Complete(Snapshot(b))]

\* PicklingError and UnpicklingError derive from pickle.PickleError.
IsPickleError(exc) == exc \in {"PickleError", "PicklingError", "UnpicklingError"}

\* Only the pickling errors are handled.
BackupCatchesPickleOnly(exc) == IsPickleError(exc)

\* except IOError ... except pickle.PickleError ...
BackupCatches(exc) == exc = "IOError" \/ IsPickleError(exc)

\* success is set as soon as the primary copy is written.
BackupSuccessAfterPrimary(fault) ==
    fault.at \notin {"open_primary", "dump_primary"}

\* else: success = True (no statement of the try block raised)
BackupSuccess(fault) == fault.exc = "none"

Backup(b, fs, fault) ==
    [files   |-> FilesAfter(b, fs, fault.at),
     at      |-> fault.at,
     exc     |-> fault.exc,
     outcome |-> IF fault.exc = "none" THEN "returned"
                 ELSE IF fault.exc = "kill" THEN "killed"
                 ELSE IF BackupCatches(fault.exc) THEN "returned"
                 ELSE "raised",
     success |-> BackupSuccess(fault)]

(***************************************************************************)
(* Brain.sense_act_learn, one action per statement.                        *)
(***************************************************************************)
\* The checkpoint is taken at the start of the cycle, before the
\* collaborators are called.
NextStepCheckpointFirst(s) ==
    CASE s = "increment"                       -> "checkpoint"
      [] s = "checkpoint"                      -> "cingulate.attend"
      [] s = "cingulate.attend"                -> "hippocampus.attend"
      [] s = "hippocampus.attend"              -> "hippocampus.get_decision_scores"
      [] s = "hippocampus.get_decision_scores" -> "ganglia.decide"
      [] s = "ganglia.decide"                  -> "cerebellum.predict"
      [] s = "cerebellum.predict"              -> "amygdala.learn"
      [] s = "amygdala.learn"                  -> "cerebellum.learn"
      [] s = "cerebellum.learn"                -> "hippocampus.learn"
      [] s = "hippocampus.learn"               -> "return"
      [] OTHER                                 -> "returned"

\* The prediction is made before the decision instead of after it.
NextStepPredictFirst(s) ==
    CASE s = "increment"                       -> "cingulate.attend"
      [] s = "cingulate.attend"                -> "hippocampus.attend"
      [] s = "hippocampus.attend"              -> "hippocampus.get_decision_scores"
      [] s = "hippocampus.get_decision_scores" -> "cerebellum.predict"
      [] s = "cerebellum.predict"              -> "ganglia.decide"
      [] s = "ganglia.decide"                  -> "amygdala.learn"
      [] s = "amygdala.learn"                  -> "cerebellum.learn"
      [] s = "cerebellum.learn"                -> "hippocampus.learn"
      [] s = "hippocampus.learn"               -> "checkpoint"
      [] s = "checkpoint"                      -> "return"
      [] OTHER                                 -> "returned"

\* The statement that follows statement s in the body of sense_act_learn.
NextStep(s) ==
    CASE s = "increment"                       -> "cingulate.attend"
      [] s = "cingulate.attend"                -> "hippocampus.attend"
      [] s = "hippocampus.attend"              -> "hippocampus.get_decision_scores"
      [] s = "hippocampus.get_decision_scores" -> "ganglia.decide"
      [] s = "ganglia.decide"                  -> "cerebellum.predict"
      [] s = "cerebellum.predict"              -> "amygdala.learn"
      [] s = "amygdala.learn"                  -> "cerebellum.learn"
      [] s = "cerebellum.learn"                -> "hippocampus.learn"
      [] s = "hippocampus.learn"               -> "checkpoint"
      [] s = "checkpoint"                      -> "return"
      [] OTHER                                 -> "returned"

\* The counter is left as it was.
IncrementForgotten(t) == t

\* self.timestep += 1
Increment(t) == t + 1

\* Statement s was executed: it is appended to the trace of the call and
\* control moves to the statement after it.
Advance(f, s, call) ==
    [f EXCEPT !.trace = Append(@, s), !.lastCall = call]

SenseActLearn ==
    /\ pc = "idle"
    /\ brain.timestep < MaxTimestep
    /\ \E sensors \in Vectors(brain.num_sensors), reward \in Rewards :
          frame' = [NewFrame("sense_act_learn", brain)
                        EXCEPT !.sensors  = sensors,
                               !.reward   = reward,
                               !.features = sensors,
                               !.trace    = <<"increment">>]
    /\ brain' = [brain EXCEPT !.timestep = Increment(@)]
    /\ pc' = NextStep("increment")
    /\ calls' = IF fresh THEN calls + 1 ELSE calls
    /\ UNCHANGED <<files, fresh, ckptAt, stored, lastGood>>
    /\ UNCHANGED <<affect, hist>>

\* What the collaborators may return to a Brain b: cingulate.attend a pair
\* <<attended, attended_activity>>, get_decision_scores a vector, decide a
\* pair <<actions, decision_index>>, predict a pair <<predicted_features,
\* predicted_actions>>.
AttendReturns(b) == {<<i, 1>> : i \in 1..b.num_sensors}
ScoreReturns(b) == Vectors(b.num_actions)
DecideReturns(b) ==
    {<<Vec(b.num_actions, 0), b.num_actions>>, <<Vec(b.num_actions, 1), 1>>}
PredictReturns(b) == Vectors(b.num_sensors) \X Vectors(b.num_actions)

\* self.cingulate.attend(features, self.predicted_features)
AttendArgs(b, f) == <<f.features, b.predicted_features>>

CingulateAttend ==
    /\ pc = "cingulate.attend"
    /\ \E attended \in AttendReturns(brain) :
          frame' = [Advance(frame, pc, Call(pc, AttendArgs(brain, frame)))
                        EXCEPT !.attended = attended]
    /\ pc' = NextStep(pc)
    /\ UNCHANGED <<brain, files, fresh, calls, ckptAt, stored, lastGood>>
    /\ UNCHANGED <<affect, hist>>

\* self.hippocampus.attend(attended, attended_activity)
HippocampusAttend ==
    /\ pc = "hippocampus.attend"
    \* attended and attended_activity are not read after this call
    /\ frame' = [Advance(frame, pc, Call(pc, frame.attended))
                    EXCEPT !.attended = None]
    /\ pc' = NextStep(pc)
    /\ UNCHANGED <<brain, files, fresh, calls, ckptAt, stored, lastGood>>
    /\ UNCHANGED <<affect, hist>>

\* self.hippocampus.get_decision_scores(reward_by_feature, goals): both
\* arguments are attributes of collaborators, kept inside them.
GetDecisionScores ==
    /\ pc = "hippocampus.get_decision_scores"
    /\ \E scores \in ScoreReturns(brain) :
          frame' = [Advance(frame, pc, Call(pc, None))
                        EXCEPT !.decision_scores = scores]
    /\ pc' = NextStep(pc)
    /\ UNCHANGED <<brain, files, fresh, calls, ckptAt, stored, lastGood>>
    /\ UNCHANGED <<affect, hist>>

\* The decision is handed a zero vector, as in the first cycle.
DecideArgsZeros(b, f) == <<f.features, Zeros(b.num_actions), f.decision_scores>>

\* self.ganglia.decide(features, self.predicted_actions, decision_scores)
DecideArgs(b, f) == <<f.features, b.predicted_actions, f.decision_scores>>

GangliaDecide ==
    /\ pc = "ganglia.decide"
    \* decision_scores is not read after this call
    /\ \E r \in DecideReturns(brain) :
          frame' = [Advance(frame, pc, Call(pc, DecideArgs(brain, frame)))
                        EXCEPT !.actions = r[1],
                               !.decision_index = r[2],
                               !.decision_scores = None]
    /\ pc' = NextStep(pc)
    /\ UNCHANGED <<brain, files, fresh, calls, ckptAt, stored, lastGood>>
    /\ UNCHANGED <<affect, hist>>

\* self.predicted_features, self.predicted_actions = (
\*         self.cerebellum.predict(features, actions))
PredictArgs(f) == <<f.features, f.actions>>

CerebellumPredict ==
    /\ pc = "cerebellum.predict"
    /\ \E r \in PredictReturns(brain) :
          /\ brain' = [brain EXCEPT !.predicted_features = r[1],
                                    !.predicted_actions = r[2]]
          /\ stored' = [predicted_features |-> r[1],
                        predicted_actions  |-> r[2]]
    /\ frame' = Advance(frame, pc, Call(pc, PredictArgs(frame)))
    /\ pc' = NextStep(pc)
    /\ UNCHANGED <<files, fresh, calls, ckptAt, lastGood>>
    /\ UNCHANGED <<affect, hist>>

\* The reward model learns from the prediction instead of the features.
AmygdalaLearnArgsPredicted(b, f) == <<b.predicted_features, f.reward>>

\* self.amygdala.learn(features, reward)
AmygdalaLearnArgs(b, f) == <<f.features, f.reward>>
\* self.cerebellum.learn(features, actions)
CerebellumLearnArgs(b, f) == <<f.features, f.actions>>
\* self.hippocampus.learn(decision_index)
HippocampusLearnArgs(b, f) == <<f.decision_index>>

LearnArgs(s, b, f) ==
    CASE s = "amygdala.learn"   -> AmygdalaLearnArgs(b, f)
      [] s = "cerebellum.learn" -> CerebellumLearnArgs(b, f)
      [] OTHER                  -> HippocampusLearnArgs(b, f)

Learn ==
    /\ pc \in {"amygdala.learn", "cerebellum.learn", "hippocampus.learn"}
    /\ frame' = Advance(frame, pc, Call(pc, LearnArgs(pc, brain, frame)))
    /\ pc' = NextStep(pc)
    /\ UNCHANGED <<brain, files, fresh, calls, ckptAt, stored, lastGood>>
    /\ UNCHANGED <<affect, hist>>


\* The checkpoint is taken in every cycle from the first interval on.
CheckpointDueFromInterval(b) == b.timestep >= b.backup_interval

\* if (self.timestep % self.backup_interval) == 0:
CheckpointDue(b) == (b.timestep % b.backup_interval) = 0

\* Where control goes after a backup that ended with `outcome`.
AfterBackup(outcome, next) ==
    CASE outcome = "raised" -> "raised"
      [] outcome = "killed" -> "dead"
      [] OTHER              -> next

\* What the operation keeps of the backup r it ran.
BackupRecord(r) ==
    [at |-> r.at, exc |-> r.exc, outcome |-> r.outcome, success |-> r.success]

\* The Brain of the last backup that completed, after backup r of b.
LastGoodAfter(r, b) == IF r.success THEN <<b>> ELSE lastGood

Checkpoint ==
    /\ pc = "checkpoint"
    /\ IF CheckpointDue(brain)
         THEN \E fault \in Faults :
                LET r == Backup(brain, files, fault) IN
                  /\ files' = r.files
                  /\ frame' = [Advance(frame, pc, Call("backup", None))
                                  EXCEPT !.backup = BackupRecord(r),
                                         !.exc = IF r.outcome = "raised"
                                                   THEN r.exc ELSE "none"]
                  /\ pc' = AfterBackup(r.outcome, NextStep(pc))
                  /\ lastGood' = LastGoodAfter(r, brain)
                  /\ ckptAt' = IF fresh THEN ckptAt \cup {brain.timestep}
                                        ELSE ckptAt
         ELSE /\ frame' = Advance(frame, pc, frame.lastCall)
              /\ pc' = NextStep(pc)
              /\ UNCHANGED <<files, lastGood, ckptAt>>
    /\ UNCHANGED <<brain, fresh, calls, stored>>
    /\ UNCHANGED <<affect, hist>>

\* return actions; return performance
ReturnValue(f) ==
    CASE f.op = "sense_act_learn"    -> f.actions
      [] f.op = "report_performance" -> f.performance
      [] OTHER                       -> None

Return ==
    /\ pc = "return"
    /\ frame' = [frame EXCEPT !.trace = Append(@, "return"),
                              !.result = ReturnValue(frame)]
    /\ pc' = NextStep(pc)
    /\ UNCHANGED <<brain, files, fresh, calls, ckptAt, stored, lastGood>>
    /\ UNCHANGED <<affect, hist>>

(***************************************************************************)
(* Brain.visualize and Brain.report_performance                            *)
(***************************************************************************)
\* self.amygdala.visualize(self.timestep, self.name, self.log_dir)
AmygdalaVisualizeArgs(b) == <<b.timestep>>

Visualize ==
    /\ pc = "idle"
    /\ frame' = [NewFrame("visualize", brain)
                    EXCEPT !.trace = <<"amygdala.visualize",
                                       "cerebellum.visualize",
                                       "cingulate.visualize",
                                       "hippocampus.visualize">>,
                           !.lastCall = Call("amygdala.visualize",
                                             AmygdalaVisualizeArgs(brain))]
    /\ affect' = AffectVisualize(affect, AmygdalaVisualizeArgs(brain)[1]).affect
    /\ hist' = HistAfterVisualize(hist, affect)
    /\ pc' = "returned"
    /\ UNCHANGED <<brain, files, fresh, calls, ckptAt, stored, lastGood>>

ReportPerformance ==
    /\ pc = "idle"
    /\ LET r == AffectVisualize(affect, AmygdalaVisualizeArgs(brain)[1]) IN
          /\ frame' = [NewFrame("report_performance", brain)
                          EXCEPT !.trace = <<"amygdala.visualize">>,
                                 !.lastCall =
                                     Call("amygdala.visualize",
                                          AmygdalaVisualizeArgs(brain)),
                                 !.performance = <<r.result>>]
          /\ affect' = r.affect
    /\ hist' = HistAfterVisualize(hist, affect)
    /\ pc' = "report.backup"
    /\ UNCHANGED <<brain, files, fresh, calls, ckptAt, stored, lastGood>>

\* self.backup() in report_performance
ReportBackup ==
    /\ pc = "report.backup"
    /\ \E fault \in Faults :
          LET r == Backup(brain, files, fault) IN
            /\ files' = r.files
            /\ frame' = [frame EXCEPT !.trace = Append(@, "backup"),
                                      !.backup = BackupRecord(r),
                                      !.exc = IF r.outcome = "raised"
                                                THEN r.exc ELSE "none"]
            /\ pc' = AfterBackup(r.outcome, "return")
            /\ lastGood' = LastGoodAfter(r, brain)
    /\ UNCHANGED <<brain, fresh, calls, ckptAt, stored>>
    /\ UNCHANGED <<affect, hist>>


(***************************************************************************)
(* Brain.restore                                                           *)
(***************************************************************************)
\* with open(self.pickle_filename, 'rb') as brain_data:
\*     loaded_brain = pickle.load(brain_data)
\* The exception the two statements end with on file f, or "none".
LoadError(f) ==
    CASE f.status \in {"absent", "unreadable"} -> "IOError"
      [] f.status = "torn"                     -> "EOFError"
      [] f.status = "garbage"                  -> "UnpicklingError"
      [] OTHER                                 -> "none"

\* loaded_brain.num_sensors, loaded_brain.num_actions on what was loaded:
\* an object that is no Brain has no such attributes.
AttributeError(f) == IF f.status = "notbrain" THEN "AttributeError" ELSE "none"

\* Only the sensors are compared.
SameSensors(loaded, self) == loaded.num_sensors = self.num_sensors

\* (loaded_brain.num_sensors == self.num_sensors) and
\* (loaded_brain.num_actions == self.num_actions)
SameGeometry(loaded, self) ==
    /\ loaded.num_sensors = self.num_sensors
    /\ loaded.num_actions = self.num_actions

\* except IOError: ... except pickle.PickleError, e: ...
RestoreCatches(exc) == exc = "IOError" \/ IsPickleError(exc)

Raised(exc) == [outcome |-> "raised", exc |-> exc, brain |-> None,
                loaded |-> FALSE]
Returned(b, loaded) == [outcome |-> "returned", exc |-> "none",
                        brain |-> <<b>>, loaded |-> loaded]

Restore(self, fs) ==
    LET f == fs.primary
        exc == IF LoadError(f) # "none" THEN LoadError(f) ELSE AttributeError(f)
    IN IF exc # "none"
         THEN IF RestoreCatches(exc) THEN Returned(self, FALSE) ELSE Raised(exc)
         ELSE IF SameGeometry(f.content[1], self)
                THEN Returned(f.content[1], TRUE)
                ELSE Returned(self, FALSE)

RestoreCall ==
    /\ pc = "idle"
    /\ LET r == Restore(brain, files) IN
         /\ frame' = [NewFrame("restore", brain)
                         EXCEPT !.trace = <<"open", "load">>,
                                !.exc = r.exc,
                                !.result = [brain  |-> r.brain,
                                            loaded |-> r.loaded]]
         /\ pc' = IF r.outcome = "raised" THEN "raised" ELSE "returned"
    /\ UNCHANGED <<brain, files, fresh, calls, ckptAt, stored, lastGood>>
    /\ UNCHANGED <<affect, hist>>

(***************************************************************************)
(* The caller.                                                             *)
(***************************************************************************)
\* brain = brain.restore(): the caller goes on with the instance returned.
Adopt ==
    /\ pc = "returned"
    /\ frame.op = "restore"
    /\ brain' = frame.result.brain[1]
    /\ IF frame.result.loaded
         THEN /\ fresh' = FALSE
              /\ calls' = 0
              /\ ckptAt' = {}
              /\ stored' = [predicted_features |-> brain'.predicted_features,
                            predicted_actions  |-> brain'.predicted_actions]
         ELSE UNCHANGED <<fresh, calls, ckptAt, stored>>
    /\ pc' = "idle"
    /\ frame' = NoFrame
    /\ UNCHANGED <<files, lastGood>>
    /\ UNCHANGED <<affect, hist>>

\* The caller has the value an operation returned, or the exception it
\* raised, and goes on.
Resume ==
    /\ \/ pc = "returned" /\ frame.op # "restore"
       \/ pc = "raised"
    /\ pc' = "idle"
    /\ frame' = NoFrame
    /\ UNCHANGED <<brain, files, fresh, calls, ckptAt, stored, lastGood>>
    /\ UNCHANGED <<affect, hist>>

(***************************************************************************)
(* One run of a world: a Brain is constructed where no file exists yet,    *)
(* cycles, is visualized, reports its performance and is restored.         *)
(***************************************************************************)
Next ==
    \/ SenseActLearn
    \/ CingulateAttend
    \/ HippocampusAttend
    \/ GetDecisionScores
    \/ GangliaDecide
    \/ CerebellumPredict
    \/ Learn
    \/ Checkpoint
    \/ Return
    \/ Visualize
    \/ ReportPerformance
    \/ ReportBackup
    \/ RestoreCall
    \/ Adopt
    \/ Resume

Spec == Init /\ [][Next]_vars


(***************************************************************************)
(* A later run: a world constructs a Brain where earlier runs, of worlds   *)
(* of any geometry, left their files, or where something else was put in   *)
(* the place of the primary file.  The Brain is restored before it cycles. *)
(***************************************************************************)
\* Geometries of the worlds of earlier runs.
EarlierGeometries == {<<1, 0>>, <<2, 0>>, <<1, 1>>, <<2, 1>>}

\* The Brains earlier runs pickled.
EarlierBrains ==
    {[BrainInit(g[1], g[2]) EXCEPT !.timestep = t,
                                   !.predicted_features = Vec(g[1], v),
                                   !.predicted_actions = Vec(g[2] + 1, v)] :
        g \in EarlierGeometries, t \in 1..MaxTimestep, v \in Levels}

PrimaryLeft ==
    {Absent, Torn, File("unreadable", None), File("garbage", None),
     File("notbrain", None)} \cup {Complete(b) : b \in EarlierBrains}

\* The copy a backup left beside the primary file f.
BakLeft(f) ==
    {Absent, Torn}
    \cup (IF f.status = "complete" THEN {f}
          ELSE {Complete(b) : b \in EarlierBrains})

InitRestart ==
    /\ \E g \in Geometries : brain = BrainInit(g[1], g[2])
    /\ \E f \in PrimaryLeft : \E k \in BakLeft(f) :
          files = [primary |-> f, bak |-> k]
    /\ pc = "idle"
    /\ frame = NoFrame
    /\ fresh = TRUE
    /\ calls = 0
    /\ ckptAt = {}
    /\ stored = [predicted_features |-> brain.predicted_features,
                 predicted_actions  |-> brain.predicted_actions]
    /\ lastGood = IF files.bak.status = "complete" THEN files.bak.content
                  ELSE None
    /\ affect = AffectInit
    /\ hist = HistInit

(***************************************************************************)
(* The life of one Affect instance: it is updated once in every cycle that *)
(* reaches the learning step and logs when the Brain is visualized or      *)
(* reports its performance.  brain.py hands the reward to                  *)
(* self.amygdala.learn, whose code is not part of the sources; that this   *)
(* call ends in Affect.update(reward) is taken from the description of the *)
(* component.  The rest of the cycle, which Affect does not see, is the    *)
(* matter of Spec and is left out here.                                    *)
(***************************************************************************)
CycleWithUpdate ==
    /\ pc = "idle"
    /\ brain.timestep < MaxAffectCycles
    /\ brain' = [brain EXCEPT !.timestep = Increment(@)]
    /\ calls' = IF fresh THEN calls + 1 ELSE calls
    /\ \E reward \in AffectRewards, learns \in BOOLEAN :
          IF learns
            THEN /\ affect' = AffectUpdate(affect, reward).affect
                 /\ hist' = HistAfterUpdate(hist, reward)
            ELSE UNCHANGED <<affect, hist>>
    /\ UNCHANGED <<files, pc, frame, fresh, ckptAt, stored, lastGood>>

NextAffect ==
    \/ CycleWithUpdate
    \/ Visualize
    \/ ReportPerformance
    \/ ReportBackup
    \/ Return
    \/ Resume

\* The geometry of the Brain is of no concern to Affect: one is enough.
InitAffect == Init /\ brain = BrainInit(1, 0)

SpecAffect == InitAffect /\ [][NextAffect]_vars

(***************************************************************************)
(* Collaborators that fail.  sense_act_learn has no try statement: an      *)
(* exception raised inside a collaborator call ends the cycle at that call *)
(* and reaches the caller.                                                 *)
(***************************************************************************)
CollaboratorSteps ==
    {"cingulate.attend", "hippocampus.attend",
     "hippocampus.get_decision_scores", "ganglia.decide",
     "cerebellum.predict", "amygdala.learn", "cerebellum.learn",
     "hippocampus.learn"}

\* The collaborator call control stands at raises: lastCall names it, the
\* trace does not hold it.
CollaboratorRaises ==
    /\ pc \in CollaboratorSteps
    /\ frame' = [frame EXCEPT !.lastCall = Call(pc, None),
                              !.exc = "CollaboratorError"]
    /\ pc' = "raised"
    /\ UNCHANGED <<brain, files, fresh, calls, ckptAt, stored, lastGood>>
    /\ UNCHANGED <<affect, hist>>

NextFault ==
    \/ SenseActLearn
    \/ CingulateAttend
    \/ HippocampusAttend
    \/ GetDecisionScores
    \/ GangliaDecide
    \/ CerebellumPredict
    \/ Learn
    \/ Checkpoint
    \/ Return
    \/ CollaboratorRaises
    \/ Resume

\* The geometry has no part in how a failure propagates: one is enough.
InitFault == Init /\ brain = BrainInit(1, 1)

SpecFault == InitFault /\ [][NextFault]_vars

NextRestart ==
    \/ RestoreCall
    \/ Adopt
    \/ Resume
    \/ ReportPerformance
    \/ ReportBackup
    \/ Return

SpecRestart == InitRestart /\ [][NextRestart]_vars


(***************************************************************************)
(* Properties of the cycle.                                                *)
(***************************************************************************)
InCycle == frame.op = "sense_act_learn"
LastCallIs(name) == frame.lastCall.name = name
Executed(step) == \E i \in 1..Len(frame.trace) : frame.trace[i] = step

\* C1: attention is handed the predicted_features, and the decision the
\* predicted_actions, that the last predict call before this cycle returned
\* (zero vectors in the first cycle of a constructed Brain); both calls are
\* made before this cycle's predict call.
C1_PreviousPrediction ==
    /\ LastCallIs("cingulate.attend") =>
          /\ frame.lastCall.args[2] = stored.predicted_features
          /\ ~Executed("cerebellum.predict")
          /\ (fresh /\ calls = 1) =>
                frame.lastCall.args[2] = Zeros(brain.num_sensors)
    /\ LastCallIs("ganglia.decide") =>
          /\ frame.lastCall.args[2] = stored.predicted_actions
          /\ ~Executed("cerebellum.predict")
          /\ (fresh /\ calls = 1) =>
                frame.lastCall.args[2] = Zeros(brain.num_actions)

\* A second cycle decides on the non-zero prediction of the first.
C1_Witness ==
    /\ InCycle /\ LastCallIs("ganglia.decide")
    /\ fresh /\ calls = 2
    /\ frame.lastCall.args[2] = Vec(brain.num_actions, 1)

\* The order of the statements of sense_act_learn, as the contract gives it.
ContractOrder ==
    <<"increment", "cingulate.attend", "hippocampus.attend",
      "hippocampus.get_decision_scores", "ganglia.decide",
      "cerebellum.predict", "amygdala.learn", "cerebellum.learn",
      "hippocampus.learn", "checkpoint", "return">>

\* C2: the statements of a call are executed in the contract's order, one at
\* a time: what was executed so far is a prefix of that order, the next
\* statement is the one that follows the prefix, and a call that has
\* returned executed all of them once.
C2_CallOrder ==
    InCycle =>
       /\ Len(frame.trace) <= Len(ContractOrder)
       /\ frame.trace = SubSeq(ContractOrder, 1, Len(frame.trace))
       /\ pc \notin {"returned", "raised", "dead"} =>
             pc = ContractOrder[Len(frame.trace) + 1]
       /\ pc = "returned" => frame.trace = ContractOrder

C2_Witness == InCycle /\ pc = "returned" /\ brain.timestep = 2

\* C3: the learn calls are handed the sensors and the reward of this call,
\* as they were passed in, and the actions and the decision_index that
\* decide returned in this call.
C3_LearnArgs ==
    /\ LastCallIs("amygdala.learn") =>
          frame.lastCall.args = <<frame.sensors, frame.reward>>
    /\ LastCallIs("cerebellum.learn") =>
          frame.lastCall.args = <<frame.sensors, frame.actions>>
    /\ LastCallIs("hippocampus.learn") =>
          frame.lastCall.args = <<frame.decision_index>>

\* The reward model learns an out-of-range reward next to features that
\* differ from the prediction just made.
C3_Witness ==
    /\ InCycle /\ LastCallIs("amygdala.learn")
    /\ frame.reward = 3
    /\ frame.lastCall.args[2] = 3
    /\ brain.predicted_features # frame.sensors

\* C4: on a constructed Brain the timestep is the number of sense_act_learn
\* calls made, whatever else was called in between.
C4_TimestepCountsCalls == fresh => brain.timestep = calls

\* report_performance, with its backup, returned after three cycles.
C4_Witness ==
    /\ fresh /\ calls = 3
    /\ frame.op = "report_performance" /\ pc = "returned"
    /\ frame.backup.success

CheckpointDueAt(t, interval) == t % interval = 0

\* The multiples of the interval among the timesteps 1..t.
Multiples(t, interval) == {k \in 1..t : k % interval = 0}

\* C5: between calls on a constructed Brain, the cycle has called backup at
\* exactly the timesteps that are multiples of backup_interval, which makes
\* floor(timestep / backup_interval) times; and a cycle calls it only after
\* its predict and learn calls.
C5_CheckpointCount ==
    /\ (fresh /\ pc = "idle") =>
          /\ ckptAt = Multiples(brain.timestep, brain.backup_interval)
          /\ Cardinality(ckptAt) = brain.timestep \div brain.backup_interval
    /\ (InCycle /\ frame.backup.outcome # "skipped") =>
          /\ CheckpointDueAt(brain.timestep, brain.backup_interval)
          /\ Executed("cerebellum.predict")
          /\ Executed("amygdala.learn")
          /\ Executed("cerebellum.learn")
          /\ Executed("hippocampus.learn")

C5_Witness ==
    /\ fresh /\ pc = "idle"
    /\ brain.timestep = 2 * BackupInterval
    /\ ckptAt = {BackupInterval, 2 * BackupInterval}

\* The backup run by the operation failed with an exception.
BackupFailed ==
    /\ frame.backup.outcome # "skipped"
    /\ frame.backup.exc \notin {"none", "kill"}

\* C6: a cycle whose checkpoint failed goes on to its return statement and
\* returns the actions decided in it, with the timestep one more than at the
\* call and the buffers holding what predict returned.
C6_CheckpointFailureContained ==
    (InCycle /\ BackupFailed) =>
       /\ pc \in {"return", "returned"}
       /\ frame.exc = "none"
       /\ brain.timestep = frame.entry[1].timestep + 1
       /\ brain.predicted_features = stored.predicted_features
       /\ brain.predicted_actions = stored.predicted_actions
       /\ pc = "returned" => frame.result = frame.actions

C6_Witness ==
    /\ InCycle /\ pc = "returned"
    /\ frame.backup.exc = "IOError" /\ frame.backup.at = "dump_primary"
    /\ frame.result = frame.actions


(***************************************************************************)
(* Properties of backup and restore.                                       *)
(***************************************************************************)
RestoreEnded == frame.op = "restore" /\ pc \in {"returned", "raised"}

\* C7: whatever the primary file holds, restore raises nothing and returns
\* either the instance it was called on or the complete snapshot in the file.
C7_RestoreNeverRaises ==
    RestoreEnded =>
       /\ pc = "returned"
       /\ \/ frame.result.brain = frame.entry
          \/ /\ files.primary.status = "complete"
             /\ frame.result.brain = files.primary.content

\* C8: once a backup has completed, a primary file that is torn has beside it
\* a .bak holding the snapshot of the last backup that completed.
C8_BakHoldsLastGood ==
    (lastGood # None /\ files.primary.status = "torn") =>
       files.bak = Complete(Snapshot(lastGood[1]))

\* A backup of the running operation has just ended.
BackupStep == frame.backup.outcome = "skipped" /\ frame'.backup.outcome # "skipped"
FailedAt(stops) ==
    /\ frame'.backup.at \in stops
    /\ frame'.backup.exc \notin {"none", "kill"}

\* C9 as stated: when the write of the primary failed the .bak is written
\* all the same, when the write of the .bak failed the primary holds the
\* snapshot, and the failure is not raised but reported as False.
C9_IndependentWrites ==
    BackupFailed =>
       /\ frame.backup.at \in {"open_primary", "dump_primary"} =>
             files.bak = Complete(Snapshot(brain))
       /\ frame.backup.at \in {"open_bak", "dump_bak"} =>
             files.primary = Complete(Snapshot(brain))
       /\ pc # "raised"
       /\ ~frame.backup.success

\* C9 amended: the .bak is written only after the primary was: a failure on
\* the primary leaves the .bak as it was, a failure on the .bak leaves the
\* primary holding the snapshot, and a failure on either is not raised but
\* reported as False.
C9_BakAfterPrimary ==
    [][BackupStep =>
         /\ FailedAt({"open_primary", "dump_primary"}) => files'.bak = files.bak
         /\ FailedAt({"open_bak", "dump_bak"}) =>
               files'.primary = Complete(Snapshot(brain))
         /\ FailedAt({"open_primary", "dump_primary", "open_bak", "dump_bak"}) =>
               /\ pc' = "return"
               /\ frame'.exc = "none"
               /\ ~frame'.backup.success]_vars

\* The write of the primary failed and the .bak still holds an older
\* snapshot, not the one of this backup.
C9_Witness ==
    /\ BackupFailed /\ pc = "return"
    /\ frame.backup.at = "dump_primary"
    /\ files.primary = Torn
    /\ files.bak.status = "complete"
    /\ files.bak # Complete(Snapshot(brain))

\* C10: restore on a complete snapshot returns the loaded instance only if
\* its num_sensors and its num_actions both equal those of the instance it
\* is called on, and returns that instance, as it is, if either differs.
C10_GeometryMismatch ==
    (RestoreEnded /\ files.primary.status = "complete") =>
       LET loaded == files.primary.content[1]
           self == frame.entry[1]
           equal == /\ loaded.num_sensors = self.num_sensors
                    /\ loaded.num_actions = self.num_actions
       IN /\ pc = "returned"
          /\ ~equal => /\ frame.result.brain[1] = self
                       /\ ~frame.result.loaded
          /\ equal => /\ frame.result.brain[1] = loaded
                      /\ frame.result.loaded

\* The snapshot differs in num_actions only and the constructed instance is
\* returned.
C10_Witness ==
    /\ RestoreEnded /\ pc = "returned"
    /\ files.primary.status = "complete"
    /\ files.primary.content[1].num_sensors = frame.entry[1].num_sensors
    /\ files.primary.content[1].num_actions # frame.entry[1].num_actions
    /\ frame.result.brain = frame.entry
    /\ frame.entry[1].timestep = 0


\* C11: restore called on a Brain that is as it was at the last backup that
\* returned True, the primary file not torn since, returns the loaded
\* snapshot, and its timestep and buffers are those of the Brain backed up.
C11_RoundTrip ==
    (RestoreEnded /\ lastGood = frame.entry
                  /\ files.primary.status = "complete") =>
       /\ pc = "returned"
       /\ frame.result.loaded
       /\ frame.result.brain[1].timestep = frame.entry[1].timestep
       /\ frame.result.brain[1].predicted_features
             = frame.entry[1].predicted_features
       /\ frame.result.brain[1].predicted_actions
             = frame.entry[1].predicted_actions

\* A Brain of three cycles, with non-zero predictions, was backed up and
\* restored.
C11_Witness ==
    /\ RestoreEnded /\ pc = "returned"
    /\ lastGood = frame.entry
    /\ frame.result.loaded
    /\ frame.entry[1].timestep = 3
    /\ frame.entry[1].predicted_features = Vec(brain.num_sensors, 1)
    /\ frame.result.brain[1].timestep = 3

(***************************************************************************)
(* Affect                                                                  *)
(***************************************************************************)
\* A step that calls Affect.visualize: Brain.visualize or
\* Brain.report_performance begins.
VisualizeStep == pc = "idle" /\ frame'.op \in {"visualize", "report_performance"}

\* A call of Brain.visualize has just ended.
VisualizeEnded == pc = "returned" /\ frame.op = "visualize"

Between(lo, x, hi) == RatLeq(lo, x) /\ RatLeq(x, hi)

IsPrefix(s, t) == Len(s) <= Len(t) /\ SubSeq(t, 1, Len(s)) = s

\* C12: whatever rewards update is handed, satisfaction is within [-1, 1].
C12_SatisfactionBounded == Between(RatNeg(One), affect.satisfaction, One)

\* Rewards beyond both ends of [-1, 1] have been handed in.
C12_Witness ==
    /\ hist.updates >= 2
    /\ {One, RatNeg(One)} \subseteq hist.seen
    /\ affect.satisfaction # Zero

\* C13, as stated: after one update or more, satisfaction is between the
\* least and the greatest of the clipped rewards observed so far.
C13_WithinRewardHull ==
    hist.updates >= 1 =>
       \E lo \in hist.seen : \E hi \in hist.seen :
          Between(lo, affect.satisfaction, hi)

\* C13, amended: satisfaction is between the least and the greatest of the
\* initial satisfaction 0 and the clipped rewards observed so far.
C13_WithinHullWithInitial ==
    \E lo \in hist.seen \cup {Zero} : \E hi \in hist.seen \cup {Zero} :
       Between(lo, affect.satisfaction, hi)

\* After two updates with positive rewards only, satisfaction is still
\* below the least of them.
C13_Witness ==
    /\ hist.updates = 2
    /\ hist.seen = {<<1, 2>>, One}
    /\ ~RatLeq(<<1, 2>>, affect.satisfaction)
    /\ ~RatLeq(affect.satisfaction, Zero)

\* C14: a visualize call with no update since the previous visualize call
\* (or since construction) appends nothing to reward_history or
\* reward_steps; one update adds at most one entry however often visualize
\* is called.
C14_FlushGuard ==
    /\ [][(VisualizeStep /\ hist.unflushed = <<>>) =>
             /\ affect'.reward_history = affect.reward_history
             /\ affect'.reward_steps = affect.reward_steps]_vars
    /\ [](hist.updates = 1 => Len(affect.reward_history) <= 1)

\* One update, a visualize call that logged it, and a second visualize call
\* that found nothing to log: one entry.
C14_Witness ==
    /\ VisualizeEnded
    /\ hist.updates = 1
    /\ hist.before.time_since_reward_log = 0
    /\ Len(hist.before.reward_history) = 1
    /\ Len(affect.reward_history) = 1
    /\ Len(affect.reward_steps) = 1

\* C15: reward_history and reward_steps have the same length, only ever
\* grow at the end, and reward_steps is strictly increasing.
C15_HistoryGrows ==
    /\ [](/\ Len(affect.reward_history) = Len(affect.reward_steps)
          /\ \A i \in 1..Len(affect.reward_steps) :
                \A j \in 1..Len(affect.reward_steps) :
                   i < j => affect.reward_steps[i] < affect.reward_steps[j])
    /\ [][/\ IsPrefix(affect.reward_history, affect'.reward_history)
          /\ IsPrefix(affect.reward_steps, affect'.reward_steps)]_vars

\* Two entries were logged, not in consecutive cycles.
C15_Witness ==
    /\ Len(affect.reward_history) = 2
    /\ Len(affect.reward_steps) = 2
    /\ affect.reward_steps[2] > affect.reward_steps[1] + 1

\* C17: visualize called with time_since_reward_log = n > 0 appends the sum
\* of the n clipped rewards since the last log divided by n + 1 to
\* reward_history and the time step to reward_steps, and resets
\* cumulative_reward and time_since_reward_log to 0; visualize never
\* changes satisfaction.
C17_Flush ==
    [][VisualizeStep =>
          /\ affect'.satisfaction = affect.satisfaction
          /\ affect.time_since_reward_log > 0 =>
                /\ affect.time_since_reward_log = Len(hist.unflushed)
                /\ affect'.reward_history =
                      Append(affect.reward_history,
                             RatDivInt(RatSum(hist.unflushed),
                                       Len(hist.unflushed) + 1))
                /\ affect'.reward_steps =
                      Append(affect.reward_steps, brain.timestep)
                /\ affect'.cumulative_reward = Zero
                /\ affect'.time_since_reward_log = 0]_vars

\* visualize logged two updates, with rewards 1/2 and 1: (3/2) / 3 = 1/2.
C17_Witness ==
    /\ VisualizeEnded
    /\ hist.before.time_since_reward_log = 2
    /\ hist.before.cumulative_reward = <<3, 2>>
    /\ affect.reward_history =
          Append(hist.before.reward_history, <<1, 2>>)
    /\ affect.reward_steps = Append(hist.before.reward_steps, brain.timestep)
    /\ affect.time_since_reward_log = 0
    /\ affect.satisfaction # Zero

(***************************************************************************)
(* Geometry                                                                *)
(***************************************************************************)
\* A call of sense_act_learn has just returned its actions.
CycleReturned == pc = "returned" /\ frame.op = "sense_act_learn"

BothHold(fs, b) ==
    /\ fs.primary.status = "complete"
    /\ fs.bak = fs.primary
    /\ fs.primary.content[1].timestep = b.timestep
    /\ fs.primary.content[1].predicted_features = b.predicted_features
    /\ fs.primary.content[1].predicted_actions = b.predicted_actions

\* C18: a backup that returns, returns True exactly when no statement of
\* either write failed; when it returns True both files hold the same
\* snapshot, with the timestep and buffers the Brain has at the call;
\* backup changes nothing of the Brain in memory.
C18_BackupResult ==
    [][BackupStep =>
          /\ brain' = brain
          /\ frame'.backup.outcome = "returned" =>
                /\ frame'.backup.success <=> frame'.backup.exc = "none"
                /\ frame'.backup.success => BothHold(files', brain)]_vars

\* The checkpoint of the second cycle returned True: both files hold the
\* Brain of timestep 2 with its non-zero prediction.
C18_Witness ==
    /\ frame.backup.outcome = "returned"
    /\ frame.backup.success
    /\ frame.op = "sense_act_learn"
    /\ brain.timestep = 2
    /\ BothHold(files, brain)
    /\ brain.predicted_features = Vec(brain.num_sensors, 1)

(***************************************************************************)
(* Collaborator failures                                                   *)
(***************************************************************************)
\* The cycle ended with an exception raised by the collaborator call `name`.
RaisedIn(name) ==
    /\ InCycle /\ pc = "raised"
    /\ frame.exc = "CollaboratorError"
    /\ LastCallIs(name)

RaisedBeforePredict ==
    \E name \in {"cingulate.attend", "hippocampus.attend",
                 "hippocampus.get_decision_scores", "ganglia.decide"} :
       RaisedIn(name)

\* C19: when attend, get_decision_scores or decide fails, the exception
\* reaches the caller with timestep one more than before the call, both
\* buffers as before the call, no predict or learn call made and no
\* checkpoint attempted; on a constructed Brain timestep is the number of
\* cycles started.
C19_FailurePropagates ==
    /\ RaisedBeforePredict =>
          /\ brain.timestep = frame.entry[1].timestep + 1
          /\ brain.predicted_features = frame.entry[1].predicted_features
          /\ brain.predicted_actions = frame.entry[1].predicted_actions
          /\ \A s \in {"cerebellum.predict", "amygdala.learn",
                       "cerebellum.learn", "hippocampus.learn",
                       "checkpoint"} : ~Executed(s)
          /\ frame.backup = NoBackup
    /\ fresh => brain.timestep = calls

\* decide failed in the second cycle, a cycle whose checkpoint was due, on
\* a Brain holding the non-zero prediction of the first cycle: nothing was
\* written.
C19_Witness ==
    /\ RaisedIn("ganglia.decide")
    /\ brain.timestep = 2 /\ CheckpointDue(brain)
    /\ brain.predicted_features = Vec(brain.num_sensors, 1)
    /\ brain.predicted_actions = Vec(brain.num_actions, 1)
    /\ files.primary = Absent

(***************************************************************************)
(* restore and the .bak copy                                               *)
(***************************************************************************)
\* A step that runs restore.
RestoreStep == pc = "idle" /\ frame'.op = "restore"

\* C20: restore changes neither the instance it is called on nor either
\* file, and whenever the primary file holds no complete snapshot while the
\* .bak copy does, restore returns the instance it was called on.
C20_PrimaryOnly ==
    /\ [][RestoreStep => brain' = brain /\ files' = files]_vars
    /\ [](RestoreEnded =>
            /\ brain = frame.entry[1]
            /\ (files.primary.status # "complete"
                   /\ files.bak.status = "complete") =>
                  /\ pc = "returned"
                  /\ ~frame.result.loaded
                  /\ frame.result.brain = frame.entry)

=============================================================================
